---- MODULE Spec2Model ----
(***************************************************************************)
(* A model of the console slog handler: the Handler with its Indentation   *)
(* options, the pooled line buffer, the context a Handler carries and the  *)
(* DepthValuer.  Text is a sequence of one-character strings, so that      *)
(* trimming, joining and rendering are computed and not assumed.           *)
(***************************************************************************)
EXTENDS Integers, Sequences, FiniteSets, TLC

\* ------------------------------------------------------------------ bounds

\* Handlers that exist at once: the constructed one and the derived ones.
MaxHandlers == 4
\* Buffers the pool has ever created.
MaxBufs == 2
\* Buffers the pool has ever created where the calls come one at a time.
SeqBufs == 1
\* Handle calls in flight at once (the concurrent specification).
MaxCalls == 2
\* Handlers of the specifications that explore something else than derivation.
SideHandlers == 2
\* The DepthValuer counts between -MaxNeg and MaxDepth.
MaxDepth == 2
MaxNeg == 1

\* ------------------------------------------------------------------- text

IsSpace(c) == c \in {" ", "\t", "\n", "\r"}

RECURSIVE TrimLeft(_)
TrimLeft(s) ==
    IF s # <<>> /\ IsSpace(Head(s)) THEN TrimLeft(Tail(s)) ELSE s

RECURSIVE TrimRight(_)
TrimRight(s) ==
    IF s # <<>> /\ IsSpace(s[Len(s)]) THEN TrimRight(SubSeq(s, 1, Len(s) - 1)) ELSE s

\* strings.TrimSpace
TrimSpace(s) == TrimRight(TrimLeft(s))

Digit(d) == <<"0", "1", "2", "3", "4", "5", "6", "7", "8", "9">>[d + 1]

RECURSIVE FormatUint(_)
FormatUint(n) ==
    IF n < 10 THEN <<Digit(n)>> ELSE FormatUint(n \div 10) \o <<Digit(n % 10)>>

FormatInt(n) == IF n < 0 THEN <<"-">> \o FormatUint(-n) ELSE FormatUint(n)

\* s repeated n times (n >= 0)
RECURSIVE Repeat(_, _)
Repeat(s, n) == IF n <= 0 THEN <<>> ELSE s \o Repeat(s, n - 1)

\* Whether sub occurs in s as a contiguous run.
Contains(s, sub) ==
    \E i \in 0..(Len(s) - Len(sub)) : SubSeq(s, i + 1, i + Len(sub)) = sub

\* ------------------------------------------------------- options, records

defaultIndentKey == <<"d", "e", "p", "t", "h">>

LevelInfo == 0

\* Indentation.isZero
isZero(indent) == indent.Prefix = <<>> /\ indent.Tab = <<>>

\* Indentation.indentString
indentString(indent, depth) ==
    IF isZero(indent) \/ depth <= 0 THEN <<>>
    ELSE (IF indent.Prefix # <<>> THEN indent.Prefix ELSE <<>>)
         \o (IF indent.Tab # <<>> THEN Repeat(indent.Tab, depth) ELSE <<>>)

\* The indentation a Handler of the Indenter kind carries: nothing set.
noIndentation == [prefix |-> <<>>, indent |-> <<>>, depth |-> 0]

\* indentation.indentMsg
indentMsg(hd, msg) ==
    IF hd.prefix = <<>> /\ (hd.indent = <<>> \/ hd.depth < 1) THEN msg
    ELSE (IF hd.prefix # <<>> THEN hd.prefix ELSE <<>>)
         \o (IF hd.indent # <<>> /\ hd.depth > 0 THEN Repeat(hd.indent, hd.depth)
             ELSE <<>>)
         \o msg

\* The prefix and indent strings a program passes to SetIndentation.
Prefixes == {<<>>, <<">">>}
Indents == {<<>>, <<"_">>}

\* DefaultIndentation
DefaultIndentation(tab) ==
    [Prefix |-> <<>>, Tab |-> <<" ", " ">>, Key |-> defaultIndentKey]

\* The tab strings a program passes to DefaultIndentation.
Tabs == {<<" ", " ">>, <<"\t">>, <<".">>}

\* The options a program passes to NewHandler.  Level is <<>> for nil.
OptionSets ==
    { [Level |-> <<>>, AddSource |-> FALSE,
       Indent |-> [Prefix |-> <<>>, Tab |-> <<>>, Key |-> <<>>]],
      [Level |-> <<-4>>, AddSource |-> TRUE,
       Indent |-> [Prefix |-> <<">">>, Tab |-> <<"_">>, Key |-> <<>>]],
      [Level |-> <<4>>, AddSource |-> FALSE,
       Indent |-> [Prefix |-> <<>>, Tab |-> <<"_", "_">>, Key |-> <<"k">>]] }

\* NewHandler: the defaults it fills in.
NewHandlerOpts(o) ==
    [Level |-> IF o.Level = <<>> THEN LevelInfo ELSE o.Level[1],
     AddSource |-> o.AddSource,
     Indent |-> [o.Indent EXCEPT !.Key = IF @ = <<>> THEN defaultIndentKey ELSE @]]

\* Attribute values by kind.
IntV(n) == [kind |-> "Int64", n |-> n, s |-> <<>>, g |-> <<>>]
UintV(n) == [kind |-> "Uint64", n |-> n, s |-> <<>>, g |-> <<>>]
BoolV(b) == [kind |-> "Bool", n |-> IF b THEN 1 ELSE 0, s |-> <<>>, g |-> <<>>]
StrV(s) == [kind |-> "String", n |-> 0, s |-> s, g |-> <<>>]
GroupV(as) == [kind |-> "Group", n |-> 0, s |-> <<>>, g |-> as]
\* A pointer to the program's DepthValuer.
ValuerV == [kind |-> "LogValuer", n |-> 0, s |-> <<>>, g |-> <<>>]
\* Another LogValuer, whose LogValue returns v.
LazyV(v) == [kind |-> "LogValuer", n |-> 0, s |-> <<>>, g |-> <<>>, lv |-> <<v>>]
\* A *DepthValuer that is nil.
NilValuerV == [kind |-> "LogValuer", n |-> 0, s |-> <<>>, g |-> <<>>, lv |-> <<>>]

Attr(k, v) == [Key |-> k, Value |-> v]

\* The records the program logs.
Records ==
    << [Time |-> 1, Level |-> 0, Message |-> <<"m">>, PC |-> 0, Attrs |-> <<>>],
       [Time |-> 2, Level |-> -4, Message |-> <<"m">>, PC |-> 1,
        Attrs |-> <<Attr(<<"k">>, IntV(2))>>],
       [Time |-> 1, Level |-> 4, Message |-> <<"m">>, PC |-> 1,
        Attrs |-> <<Attr(<<"k">>, IntV(1)), Attr(defaultIndentKey, IntV(2)),
                    Attr(<<"x">>, StrV(<<"s", " ", "t">>))>>],
       [Time |-> 1, Level |-> 0, Message |-> <<"m">>, PC |-> 1,
        Attrs |-> <<Attr(defaultIndentKey, ValuerV), Attr(<<"k">>, UintV(1))>>],
       [Time |-> 1, Level |-> 0, Message |-> <<"m">>, PC |-> 0,
        Attrs |-> <<Attr(defaultIndentKey, IntV(-1)),
                    Attr(<<"g">>, GroupV(<<Attr(<<"b">>, BoolV(TRUE))>>))>>],
       [Time |-> 1, Level |-> 0, Message |-> <<"m">>, PC |-> 0,
        Attrs |-> <<Attr(defaultIndentKey, UintV(2)), Attr(<<"k">>, IntV(1))>>],
       [Time |-> 1, Level |-> 0, Message |-> <<"m">>, PC |-> 0,
        Attrs |-> <<Attr(<<"k">>, IntV(1)),
                    Attr(defaultIndentKey, LazyV(StrV(<<"2">>)))>>],
       [Time |-> 1, Level |-> 0, Message |-> <<"m">>, PC |-> 0,
        Attrs |-> <<Attr(defaultIndentKey, LazyV(ValuerV)), Attr(<<"k">>, IntV(1))>>],
       [Time |-> 1, Level |-> 0, Message |-> <<"m">>, PC |-> 0,
        Attrs |-> <<Attr(defaultIndentKey, NilValuerV), Attr(<<"k">>, IntV(1))>>] >>

\* The records whose depth attribute, where they have one, is an integer or
\* the DepthValuer.
PlainRecords == 1..5

\* The attribute lists the program binds with WithAttrs.
AttrLists ==
    << <<Attr(<<"a">>, IntV(1))>>,
       <<Attr(<<"b">>, IntV(2))>> >>

\* The names the program opens groups with.
GroupNames == << <<" ", "g">>, <<" ">> >>

\* What the sink does with a write: takes it all, fails, or takes a part.
Outcomes == {"ok", "err", "short"}

\* ---------------------------------------------------------------- encoder

\* A LogValuer whose LogValue method dereferences a nil pointer.
Panics(v) == v.kind = "LogValuer" /\ "lv" \in DOMAIN v /\ v.lv = <<>>

\* One call of LogValue on a LogValuer (DepthValuer.LogValue for the
\* DepthValuer), and any other value as it is; d is the DepthValuer's depth
\* when the value is resolved.
Resolve(v, d) ==
    IF v.kind = "LogValuer"
    THEN (IF "lv" \in DOMAIN v THEN v.lv[1] ELSE IntV(d))
    ELSE v

\* encoder.writeTimestamp: the formatted time and a separator.
writeTimestamp(t) == <<"T">> \o FormatUint(t) \o <<" ">>

\* encoder.writeLevel: the three-letter abbreviation and a separator.
writeLevel(l) ==
    (CASE l = -4 -> <<"D", "B", "G">>
       [] l = 0 -> <<"I", "N", "F">>
       [] l = 4 -> <<"W", "R", "N">>
       [] l = 8 -> <<"E", "R", "R">>
       [] OTHER -> <<"L">> \o FormatInt(l)) \o <<" ">>

\* encoder.writeSource: file:line and a separator.
writeSource(pc) == <<"f", ":">> \o FormatUint(pc) \o <<" ">>

\* encoder.writeMessage
writeMessage(msg) == msg

needsQuote(s) == \E i \in 1..Len(s) : s[i] \in {" ", "=", "\""}

\* encoder.writeValue: the text of a resolved scalar value.
writeValue(v) ==
    CASE v.kind = "Int64" -> FormatInt(v.n)
      [] v.kind = "Uint64" -> FormatUint(v.n)
      [] v.kind = "Bool" -> (IF v.n = 1 THEN <<"t", "r", "u", "e">>
                             ELSE <<"f", "a", "l", "s", "e">>)
      [] v.kind = "String" -> (IF needsQuote(v.s) THEN <<"\"">> \o v.s \o <<"\"">>
                               ELSE v.s)
      [] OTHER -> <<"?">>

\* The key a scalar is written under: the group path, a dot, the key.
keyPath(group, key) == IF group # <<>> THEN group \o <<".">> \o key ELSE key

\* encoder.writeAttr: the bytes appended for attribute a under group; a group
\* attribute writes its members under the extended path.
RECURSIVE writeAttr(_, _, _)
RECURSIVE writeAttrs(_, _, _)
writeAttr(a, group, d) ==
    LET value == Resolve(a.Value, d)
    IN  IF value.kind = "Group"
        THEN writeAttrs(value.g, keyPath(group, a.Key), d)
        ELSE <<" ">> \o keyPath(group, a.Key) \o <<"=">> \o writeValue(value)

writeAttrs(as, group, d) ==
    IF as = <<>> THEN <<>>
    ELSE writeAttr(Head(as), group, d) \o writeAttrs(Tail(as), group, d)

\* encoder.NewLine
NewLine == <<"\r", "\n">>

\* ----------------------------------------------------------------- buffer

\* A buffer is a slice: the array it points into (0 for nil), its length and
\* its capacity.  arrays[a] is the written part of array a and its size.
nilBuffer == [arr |-> 0, len |-> 0, cap |-> 0]

\* The bytes of slice b.
Bytes(arrs, b) == IF b.len = 0 THEN <<>> ELSE SubSeq(arrs[b.arr].data, 1, b.len)

SizeClasses == <<8, 16, 24, 32, 48, 64, 80, 96, 112, 128>>

RoundUp(n) ==
    LET fit == {i \in 1..Len(SizeClasses) : SizeClasses[i] >= n}
    IN  IF fit = {} THEN n
        ELSE SizeClasses[CHOOSE i \in fit : \A j \in fit : i <= j]

\* The capacity append gives a slice that has to grow to need bytes.
GrowCap(oldcap, need) ==
    IF need > 2 * oldcap THEN RoundUp(need) ELSE RoundUp(2 * oldcap)

\* append(b, bytes...): in place when the capacity allows, else into a new
\* array.  Yields the arrays and the slice afterwards.
AppendBytes(arrs, b, bytes) ==
    LET n == Len(bytes)
    IN  IF n = 0 THEN [arrays |-> arrs, buf |-> b]
        ELSE IF b.len + n <= b.cap
        THEN LET old == arrs[b.arr].data
                 new == SubSeq(old, 1, b.len) \o bytes
                        \o SubSeq(old, b.len + n + 1, Len(old))
             IN  [arrays |-> [arrs EXCEPT ![b.arr].data = new],
                  buf |-> [b EXCEPT !.len = b.len + n]]
        ELSE [arrays |-> Append(arrs, [data |-> Bytes(arrs, b) \o bytes,
                                       cap |-> GrowCap(b.cap, b.len + n)]),
              buf |-> [arr |-> Len(arrs) + 1, len |-> b.len + n,
                       cap |-> GrowCap(b.cap, b.len + n)]]

\* buffer.Clip: the capacity becomes the length.
Clip(b) == [b EXCEPT !.cap = b.len]

\* ------------------------------------------------------------------ state

VARIABLES
    handlers,   \* the Handlers made so far: handlers[1] is NewHandler's
    arrays,     \* the arrays the Handlers' contexts point into
    pool,       \* bufferPool: the buffers in it
    bufs,       \* the bytes each pooled buffer holds
    dv,         \* the DepthValuer's depth
    calls,      \* the Handle calls in flight
    last,       \* the Handle call that returned last, and what it did
    memo        \* an earlier Handle call, remembered

vars == <<handlers, arrays, pool, bufs, dv, calls, last, memo>>

HandlerIds == 1..Len(handlers)

idleCall == [pc |-> "idle", h |-> 0, r |-> 0, buf |-> 0]

noCall ==
    [op |-> "none", via |-> "", h |-> 0, r |-> 0, out |-> "", line |-> <<>>,
     writes |-> 0, err |-> "nil", buf |-> 0, indent |-> <<>>, depth |-> 0,
     d |-> 0, conc |-> FALSE]

\* n counts the Handle calls that returned after the remembered one, up to 2.
noMemo == [set |-> FALSE, h |-> 0, r |-> 0, d |-> 0, line |-> <<>>, n |-> 0]

\* NewHandler, called with one of the options os
InitWith(os) ==
    /\ \E o \in os :
        handlers = << [opts |-> NewHandlerOpts(o), group |-> <<>>,
                       context |-> nilBuffer, indentation |-> noIndentation,
                       parent |-> 0, op |-> "new", arg |-> 0] >>
    /\ arrays = <<>>
    /\ pool = {}
    /\ bufs = [b \in 1..MaxBufs |-> <<>>]
    /\ dv = 0
    /\ calls = [c \in 1..MaxCalls |-> idleCall]
    /\ last = noCall
    /\ memo = noMemo

\* ------------------------------------------------------------- derivation

\* As appendAttrs, every attribute written under the empty group path.
RECURSIVE appendAttrsNoGroup(_, _, _, _, _)
appendAttrsNoGroup(arrs, b, as, group, d) ==
    IF as = <<>> THEN [arrays |-> arrs, buf |-> b]
    ELSE LET r == AppendBytes(arrs, b, writeAttr(Head(as), <<>>, d))
         IN  appendAttrsNoGroup(r.arrays, r.buf, Tail(as), group, d)

\* writeAttr(&newCtx, a, h.group) for each attribute in turn.
RECURSIVE appendAttrs(_, _, _, _, _)
appendAttrs(arrs, b, as, group, d) ==
    IF as = <<>> THEN [arrays |-> arrs, buf |-> b]
    ELSE LET r == AppendBytes(arrs, b, writeAttr(Head(as), group, d))
         IN  appendAttrs(r.arrays, r.buf, Tail(as), group, d)

\* As newContext, without the Clip.
newContextNoClip(arrs, hd, attrs, d) ==
    appendAttrs(arrs, hd.context, attrs, hd.group, d)

\* WithAttrs: newCtx := h.context; the attributes appended; newCtx.Clip().
newContext(arrs, hd, attrs, d) ==
    LET r == appendAttrs(arrs, hd.context, attrs, hd.group, d)
    IN  [arrays |-> r.arrays, buf |-> Clip(r.buf)]

\* As groupPath, without the TrimSpace.
groupPathNoTrim(hd, name) ==
    IF hd.group # <<>> THEN hd.group \o <<".">> \o name ELSE name

\* WithGroup: the new Handler's group.
groupPath(hd, name) ==
    LET n == TrimSpace(name)
    IN  IF hd.group # <<>> THEN hd.group \o <<".">> \o n ELSE n

\* NewHandler(out, &HandlerOptions{Indent: DefaultIndentation(tab)}); the
\* handler remembers the tab it was asked for.
NewHandlerDefault(tab, maxH) ==
    /\ Len(handlers) < maxH
    /\ handlers' = Append(handlers,
            [opts |-> NewHandlerOpts([Level |-> <<>>, AddSource |-> FALSE,
                                      Indent |-> DefaultIndentation(tab)]),
             group |-> <<>>, context |-> nilBuffer,
             indentation |-> noIndentation, parent |-> 0, op |-> "new",
             arg |-> tab])
    /\ UNCHANGED <<arrays, pool, bufs, dv, calls, last, memo>>

\* h.WithAttrs(AttrLists[al])
WithAttrs(h, al, maxH) ==
    /\ Len(handlers) < maxH
    /\ LET hd == handlers[h]
           r == newContext(arrays, hd, AttrLists[al], dv)
       IN  /\ arrays' = r.arrays
           /\ handlers' = Append(handlers,
                [opts |-> hd.opts, group |-> hd.group, context |-> r.buf,
                 indentation |-> noIndentation,
                 parent |-> h, op |-> "attrs", arg |-> al])
    /\ UNCHANGED <<pool, bufs, dv, calls, last, memo>>

\* h.WithGroup(GroupNames[g])
WithGroup(h, g, maxH) ==
    /\ Len(handlers) < maxH
    /\ LET hd == handlers[h]
       IN  handlers' = Append(handlers,
                [opts |-> hd.opts, group |-> groupPath(hd, GroupNames[g]),
                 context |-> hd.context, indentation |-> noIndentation,
                 parent |-> h, op |-> "group", arg |-> g])
    /\ UNCHANGED <<arrays, pool, bufs, dv, calls, last, memo>>

\* ----------------------------------------------------------------- Handle

\* As Enabled, with the comparison turned round.
EnabledReversed(hd, l) == l <= hd.opts.Level

\* Handler.Enabled
Enabled(hd, l) == l >= hd.opts.Level

\* The scan of the record's attributes for the depth key: the depth it finds
\* and the attributes it keeps.
RECURSIVE scanAttrs(_, _, _, _, _)
scanAttrs(as, key, d, depth, kept) ==
    IF as = <<>> THEN [depth |-> depth, attributes |-> kept]
    ELSE LET a == Head(as)
             value == IF a.Value.kind = "LogValuer" THEN Resolve(a.Value, d)
                      ELSE a.Value
         IN  IF a.Key = key
             THEN scanAttrs(Tail(as), key, d,
                            IF value.kind = "Int64" THEN value.n ELSE depth, kept)
             ELSE scanAttrs(Tail(as), key, d, depth, Append(kept, a))

\* The scan calls LogValue on a nil pointer.
scanPanics(as, key) ==
    \E i \in 1..Len(as) : as[i].Key = key /\ Panics(as[i].Value)

\* As depthScan, keeping the depth attribute among the attributes to write.
depthScanKeep(as, key, d) ==
    [depth |-> scanAttrs(as, key, d, 0, <<>>).depth, attributes |-> as]

depthScan(as, key, d) == scanAttrs(as, key, d, 0, <<>>)

\* The depth Handle indents by and the text it puts before the message.
usedDepth(hd, rec, d) ==
    IF isZero(hd.opts.Indent) THEN 0
    ELSE depthScan(rec.Attrs, hd.opts.Indent.Key, d).depth

usedIndent(hd, rec, d) ==
    IF isZero(hd.opts.Indent) THEN <<>>
    ELSE indentString(hd.opts.Indent, usedDepth(hd, rec, d))

\* The timestamp, the level and the source.
header(hd, rec) ==
    writeTimestamp(rec.Time) \o writeLevel(rec.Level)
    \o (IF hd.opts.AddSource /\ rec.PC > 0 THEN writeSource(rec.PC) ELSE <<>>)

\* As renderLine, the record's attributes written before the context.
renderLineAttrsFirst(hd, ctx, rec, d) ==
    header(hd, rec) \o writeMessage(usedIndent(hd, rec, d) \o rec.Message)
    \o writeAttrs(IF isZero(hd.opts.Indent) THEN rec.Attrs
                  ELSE depthScan(rec.Attrs, hd.opts.Indent.Key, d).attributes,
                  hd.group, d)
    \o ctx \o NewLine

\* What Handle appends to the buffer it took; ctx is the bytes of h.context.
renderLine(hd, ctx, rec, d) ==
    IF isZero(hd.opts.Indent)
    THEN header(hd, rec) \o writeMessage(rec.Message) \o ctx
         \o writeAttrs(rec.Attrs, hd.group, d) \o NewLine
    ELSE LET sc == depthScan(rec.Attrs, hd.opts.Indent.Key, d)
         IN  header(hd, rec)
             \o writeMessage(indentString(hd.opts.Indent, sc.depth) \o rec.Message)
             \o ctx \o writeAttrs(sc.attributes, hd.group, d) \o NewLine

\* buffer.WriteTo: one Write of the whole buffer; the buffer is reset when the
\* sink took it all.
WriteTo(content, out) ==
    IF Len(content) = 0
    THEN [buf |-> content, err |-> "nil", line |-> <<>>, writes |-> 0]
    ELSE [buf |-> IF out = "ok" THEN <<>> ELSE content,
          err |-> CASE out = "ok" -> "nil"
                    [] out = "err" -> "SinkErr"
                    [] OTHER -> "ErrShortWrite",
          line |-> content, writes |-> 1]

\* As afterWrite, without the Reset on the failure path.
afterWriteNoReset(w) == [buf |-> w.buf, err |-> w.err]

\* As afterWrite, the error dropped.
afterWriteNoErr(w) == [buf |-> <<>>, err |-> "nil"]

\* The end of Handle: what is in the buffer when it is put back, and the
\* error returned.
afterWrite(w) ==
    IF w.err # "nil" THEN [buf |-> <<>>, err |-> w.err]
    ELSE [buf |-> w.buf, err |-> "nil"]

\* The buffers the calls in flight hold.
Held == {calls[c].buf : c \in {x \in DOMAIN calls : calls[x].pc # "idle"}}

\* As poolAfterGet, the buffer left in the pool.
poolAfterGetKeep(p, b) == p

\* bufferPool.Get: the buffer leaves the pool.
poolAfterGet(p, b) == p \ {b}

\* The buffers bufferPool.Get may return: a pooled one, or a new one.
getChoices(maxB) ==
    LET free == {b \in 1..maxB : b \notin pool /\ b \notin Held}
    IN  pool \cup (IF free = {} THEN {}
                   ELSE {CHOOSE b \in free : \A x \in free : b <= x})

\* What a returned Handle call leaves in last.
returned(via, h, r, out, w, e, b, conc) ==
    [op |-> "Handle", via |-> via, h |-> h, r |-> r, out |-> out,
     line |-> w.line, writes |-> w.writes, err |-> e.err, buf |-> b,
     indent |-> usedIndent(handlers[h], Records[r], dv),
     depth |-> usedDepth(handlers[h], Records[r], dv), d |-> dv, conc |-> conc]

\* Handle on handler h and record r panics in the scan for the depth key.
handlePanics(h, r) ==
    /\ ~isZero(handlers[h].opts.Indent)
    /\ scanPanics(Records[r].Attrs, handlers[h].opts.Indent.Key)

\* The whole of Handle on handler h and record r, the sink answering out.
\* Where the scan panics the call ends there: nothing is written, and the
\* buffer taken is neither reset nor put back, it is dropped (its number
\* stands for a new buffer from then on).
handleAll(via, h, r, out, keep) ==
    \E b \in getChoices(SeqBufs) :
        IF handlePanics(h, r)
        THEN /\ bufs' = [bufs EXCEPT ![b] = <<>>]
             /\ pool' = poolAfterGet(pool, b)
             /\ last' = [noCall EXCEPT !.op = "Panic", !.via = via, !.h = h,
                                       !.r = r, !.out = out, !.buf = b, !.d = dv]
             /\ memo' = memo
        ELSE
        LET hd == handlers[h]
            rec == Records[r]
            content == bufs[b] \o renderLine(hd, Bytes(arrays, hd.context), rec, dv)
            w == WriteTo(content, out)
            e == afterWrite(w)
        IN  /\ bufs' = [bufs EXCEPT ![b] = e.buf]
            /\ pool' = poolAfterGet(pool, b) \cup {b}
            /\ last' = returned(via, h, r, out, w, e, b, FALSE)
            /\ memo' = IF keep
                       THEN [set |-> TRUE, h |-> h, r |-> r, d |-> dv,
                             line |-> w.line, n |-> 0]
                       ELSE IF memo.set
                       THEN [memo EXCEPT !.n = IF @ < 2 THEN @ + 1 ELSE @]
                       ELSE memo

\* h.Handle(ctx, Records[r])
Handle(h, r, out, keep) ==
    /\ handleAll("Handle", h, r, out, keep)
    /\ UNCHANGED <<handlers, arrays, dv, calls>>

\* A logging call of the program (slog.Info, slog.Debug): the logger asks
\* Enabled and calls Handle when it answers true.
Log(h, r, out) ==
    /\ IF Enabled(handlers[h], Records[r].Level)
       THEN handleAll("Log", h, r, out, FALSE)
       ELSE /\ last' = [noCall EXCEPT !.op = "Skip", !.via = "Log", !.h = h,
                                      !.r = r, !.out = out, !.d = dv]
            /\ UNCHANGED <<pool, bufs, memo>>
    /\ UNCHANGED <<handlers, arrays, dv, calls>>

\* What the Handle of the Indenter kind appends to the buffer it took.
renderLineIndenter(hd, ctx, rec, d) ==
    header(hd, rec) \o writeMessage(indentMsg(hd.indentation, rec.Message))
    \o ctx \o writeAttrs(rec.Attrs, hd.group, d) \o NewLine

\* h.Handle(ctx, Records[r]) where the Handler is an Indenter: the message
\* goes through indentMsg and every attribute of the record is written.
HandleIndenter(h, r, out) ==
    /\ \E b \in getChoices(SeqBufs) :
        LET hd == handlers[h]
            rec == Records[r]
            content == bufs[b]
                       \o renderLineIndenter(hd, Bytes(arrays, hd.context), rec, dv)
            w == WriteTo(content, out)
            e == afterWrite(w)
            msg == indentMsg(hd.indentation, rec.Message)
        IN  /\ bufs' = [bufs EXCEPT ![b] = e.buf]
            /\ pool' = poolAfterGet(pool, b) \cup {b}
            /\ last' = [returned("Indenter", h, r, out, w, e, b, FALSE)
                          EXCEPT !.indent = SubSeq(msg, 1, Len(msg) - Len(rec.Message)),
                                 !.depth = hd.indentation.depth]
    /\ UNCHANGED <<handlers, arrays, dv, calls, memo>>

\* A call of the Indenter interface on handler h, as last remembers it; depth
\* is the handler's depth before the call.
indenterCall(op, h) ==
    [noCall EXCEPT !.op = op, !.via = "Indenter", !.h = h,
                   !.depth = handlers[h].indentation.depth]

\* Handler.SetIndentation
SetIndentation(h, prefix, indent) ==
    /\ handlers' = [handlers EXCEPT ![h].indentation =
                        [prefix |-> prefix, indent |-> indent, depth |-> 0]]
    /\ last' = indenterCall("SetIndentation", h)
    /\ UNCHANGED <<arrays, pool, bufs, dv, calls, memo>>

\* Handler.Increment
HandlerIncrement(h) ==
    /\ handlers[h].indentation.depth < MaxDepth
    /\ handlers' = [handlers EXCEPT ![h].indentation.depth = @ + 1]
    /\ last' = indenterCall("Increment", h)
    /\ UNCHANGED <<arrays, pool, bufs, dv, calls, memo>>

\* As depthAfterDecrement, without the test for zero.
depthAfterDecrementNoTest(depth) == depth - 1

\* Handler.Decrement: the depth afterwards.
depthAfterDecrement(depth) == IF depth > 0 THEN depth - 1 ELSE depth

\* Handler.Decrement
HandlerDecrement(h) ==
    /\ handlers' = [handlers EXCEPT ![h].indentation.depth = depthAfterDecrement(@)]
    /\ last' = indenterCall("Decrement", h)
    /\ UNCHANGED <<arrays, pool, bufs, dv, calls, memo>>

\* Handle, step by step, for calls that run at the same time.
\* buf := bufferPool.Get().(*buffer)
HandleGet(c, h, r) ==
    /\ calls[c].pc = "idle"
    /\ \E b \in getChoices(MaxBufs) :
        /\ pool' = poolAfterGet(pool, b)
        /\ calls' = [calls EXCEPT ![c] = [pc |-> "got", h |-> h, r |-> r, buf |-> b]]
    /\ UNCHANGED <<handlers, arrays, bufs, dv, last, memo>>

\* The timestamp, level, source, message, context, attributes and line end
\* appended to the buffer.
HandleRender(c) ==
    /\ calls[c].pc = "got"
    /\ LET hd == handlers[calls[c].h]
       IN  bufs' = [bufs EXCEPT ![calls[c].buf] =
                        @ \o renderLine(hd, Bytes(arrays, hd.context),
                                        Records[calls[c].r], dv)]
    /\ calls' = [calls EXCEPT ![c].pc = "rendered"]
    /\ UNCHANGED <<handlers, arrays, pool, dv, last, memo>>

\* buf.WriteTo(h.out), the buffer put back, the return.
HandleWrite(c, out) ==
    /\ calls[c].pc = "rendered"
    /\ LET b == calls[c].buf
           w == WriteTo(bufs[b], out)
           e == afterWrite(w)
       IN  /\ bufs' = [bufs EXCEPT ![b] = e.buf]
           /\ pool' = pool \cup {b}
           /\ last' = returned("Handle", calls[c].h, calls[c].r, out, w, e, b,
                               \E x \in DOMAIN calls : x # c /\ calls[x].pc = "rendered")
    /\ calls' = [calls EXCEPT ![c] = idleCall]
    /\ UNCHANGED <<handlers, arrays, dv, memo>>

\* DepthValuer.Increment
Increment ==
    /\ dv < MaxDepth
    /\ dv' = dv + 1
    /\ UNCHANGED <<handlers, arrays, pool, bufs, calls, last, memo>>

\* DepthValuer.Decrement
Decrement ==
    /\ dv > -MaxNeg
    /\ dv' = dv - 1
    /\ UNCHANGED <<handlers, arrays, pool, bufs, calls, last, memo>>

\* --------------------------------------------------------- specifications

\* The options and the records of the specification of derivation.
DeriveOptions == {o \in OptionSets : o.Level = <<>> \/ o.AddSource}
DeriveRecords == {1, 3}

Init == InitWith(DeriveOptions)

\* Derivation and Handle calls, one at a time.
Next ==
    \/ \E h \in HandlerIds, al \in 1..Len(AttrLists) : WithAttrs(h, al, MaxHandlers)
    \/ \E h \in HandlerIds, g \in 1..Len(GroupNames) : WithGroup(h, g, MaxHandlers)
    \/ \E h \in HandlerIds, r \in DeriveRecords, out \in Outcomes :
           Handle(h, r, out, FALSE)

Spec == Init /\ [][Next]_vars

\* Logging calls, which ask Enabled, and Handle calls made directly.
InitLog == InitWith(OptionSets)

NextLog ==
    \/ \E h \in HandlerIds, al \in 1..Len(AttrLists) : WithAttrs(h, al, SideHandlers)
    \/ \E h \in HandlerIds, g \in 1..Len(GroupNames) : WithGroup(h, g, SideHandlers)
    \/ \E h \in HandlerIds, r \in PlainRecords, out \in Outcomes : Log(h, r, out)
    \/ \E h \in HandlerIds, r \in PlainRecords, out \in Outcomes :
           Handle(h, r, out, FALSE)

SpecLog == InitLog /\ [][NextLog]_vars

\* Handle calls while the program moves its DepthValuer.
InitDepth == InitWith(OptionSets)

NextDepth ==
    \/ Increment
    \/ Decrement
    \/ \E h \in HandlerIds : WithGroup(h, 1, SideHandlers)
    \/ \E h \in HandlerIds, r \in PlainRecords, out \in Outcomes :
           Handle(h, r, out, FALSE)

SpecDepth == InitDepth /\ [][NextDepth]_vars

\* The same record handled again, after other calls and moves of the
\* DepthValuer; any of the calls may be the one remembered.
TwiceRecords == {1, 4}

InitTwice == InitWith(OptionSets)

NextTwice ==
    \/ Increment
    \/ Decrement
    \/ \E h \in HandlerIds : WithGroup(h, 1, SideHandlers)
    \/ \E h \in HandlerIds, r \in TwiceRecords, out \in Outcomes, keep \in BOOLEAN :
           Handle(h, r, out, keep)

SpecTwice == InitTwice /\ [][NextTwice]_vars

\* Handle calls with records whose depth attribute is not an integer.
MalformedOptions == {o \in OptionSets : o.AddSource}
MalformedRecords == {3, 6, 7, 8, 9}

InitMalformed == InitWith(MalformedOptions)

NextMalformed ==
    \/ Increment
    \/ Decrement
    \/ \E h \in HandlerIds : WithGroup(h, 1, SideHandlers)
    \/ \E h \in HandlerIds, r \in MalformedRecords, out \in Outcomes :
           Handle(h, r, out, FALSE)

SpecMalformed == InitMalformed /\ [][NextMalformed]_vars

\* The Handler as an Indenter: its own prefix, indent string and depth,
\* derivation and Handle calls.
IndenterOptions == {o \in OptionSets : isZero(o.Indent)}
IndenterRecords == {1, 3}

InitIndenter == InitWith(IndenterOptions)

NextIndenter ==
    \/ \E h \in HandlerIds, prefix \in Prefixes, indent \in Indents :
           SetIndentation(h, prefix, indent)
    \/ \E h \in HandlerIds : HandlerIncrement(h)
    \/ \E h \in HandlerIds : HandlerDecrement(h)
    \/ \E h \in HandlerIds, al \in 1..Len(AttrLists) : WithAttrs(h, al, SideHandlers)
    \/ \E h \in HandlerIds, g \in 1..Len(GroupNames) : WithGroup(h, g, SideHandlers)
    \/ \E h \in HandlerIds, r \in IndenterRecords, out \in Outcomes :
           HandleIndenter(h, r, out)

SpecIndenter == InitIndenter /\ [][NextIndenter]_vars

\* Handlers made with DefaultIndentation, and Handle calls on them while the
\* program moves its DepthValuer.
DefaultRecords == {1, 4}

InitDefault ==
    /\ handlers = <<>>
    /\ arrays = <<>>
    /\ pool = {}
    /\ bufs = [b \in 1..MaxBufs |-> <<>>]
    /\ dv = 0
    /\ calls = [c \in 1..MaxCalls |-> idleCall]
    /\ last = noCall
    /\ memo = noMemo

NextDefault ==
    \/ \E tab \in Tabs : NewHandlerDefault(tab, SideHandlers)
    \/ Increment
    \/ Decrement
    \/ \E h \in HandlerIds, r \in DefaultRecords, out \in Outcomes :
           Handle(h, r, out, FALSE)

SpecDefault == InitDefault /\ [][NextDefault]_vars

\* Handle calls that run at the same time, and derivation beside them.
ConcRecords == {1, 3}

InitConc == InitWith(DeriveOptions)

NextConc ==
    \/ \E h \in HandlerIds, al \in 1..Len(AttrLists) : WithAttrs(h, al, SideHandlers)
    \/ \E c \in 1..MaxCalls, h \in HandlerIds, r \in ConcRecords : HandleGet(c, h, r)
    \/ \E c \in 1..MaxCalls : HandleRender(c)
    \/ \E c \in 1..MaxCalls, out \in Outcomes : HandleWrite(c, out)

SpecConc == InitConc /\ [][NextConc]_vars

\* ------------------------------------------------- what the claims speak of

\* The derivations that led to handler i, the first one first.
RECURSIVE chainOf(_)
chainOf(i) ==
    IF handlers[i].parent = 0 THEN <<>>
    ELSE Append(chainOf(handlers[i].parent), i)

\* The attributes bound along the derivation chain of handler i, as text, in
\* the order they were bound.
RECURSIVE boundText(_)
boundText(i) ==
    IF handlers[i].parent = 0 THEN <<>>
    ELSE boundText(handlers[i].parent)
         \o (IF handlers[i].op = "attrs"
             THEN writeAttrs(AttrLists[handlers[i].arg], handlers[i].group, 0)
             ELSE <<>>)

\* The record's attributes that are written: all of them, but for the depth
\* attribute where indentation is configured.
writtenAttrs(hd, rec) ==
    IF isZero(hd.opts.Indent) THEN rec.Attrs
    ELSE SelectSeq(rec.Attrs, LAMBDA a : a.Key # hd.opts.Indent.Key)

RECURSIVE joinDots(_)
joinDots(ns) ==
    IF ns = <<>> THEN <<>>
    ELSE IF Len(ns) = 1 THEN ns[1]
    ELSE ns[1] \o <<".">> \o joinDots(Tail(ns))

RECURSIVE dropLeadingEmpty(_)
dropLeadingEmpty(ns) ==
    IF ns # <<>> /\ ns[1] = <<>> THEN dropLeadingEmpty(Tail(ns)) ELSE ns

\* Handler i was reached from the constructed handler by WithGroup alone.
groupsOnly(i) ==
    /\ chainOf(i) # <<>>
    /\ \A k \in 1..Len(chainOf(i)) : handlers[chainOf(i)[k]].op = "group"

\* The trimmed names of the WithGroup calls that led to handler i.
groupNamesOf(i) ==
    [k \in 1..Len(chainOf(i)) |-> TrimSpace(GroupNames[handlers[chainOf(i)[k]].arg])]

\* The last call was a Handle that wrote a line.
Handled == last.op = "Handle" /\ last.writes = 1

\* ----------------------------------------------------------------- claims

\* C2: two handlers derived by WithAttrs from the same parent each carry the
\* parent's bound attributes followed by their own list and nothing of the
\* other's; so does every line they write.
SiblingsDoNotAlias ==
    \A i, j \in HandlerIds :
        (/\ i # j
         /\ handlers[i].op = "attrs" /\ handlers[j].op = "attrs"
         /\ handlers[i].parent = handlers[j].parent)
        => LET p == handlers[handlers[i].parent]
               pb == Bytes(arrays, p.context)
               ai == writeAttrs(AttrLists[handlers[i].arg], p.group, 0)
               aj == writeAttrs(AttrLists[handlers[j].arg], p.group, 0)
           IN  /\ Bytes(arrays, handlers[i].context) = pb \o ai
               /\ (Handled /\ last.h = i) =>
                    /\ last.line =
                         header(handlers[i], Records[last.r])
                         \o last.indent \o Records[last.r].Message
                         \o pb \o ai
                         \o writeAttrs(writtenAttrs(handlers[i], Records[last.r]),
                                       handlers[i].group, 0)
                         \o NewLine
                    /\ (ai # aj /\ ~Contains(pb, aj)) => ~Contains(last.line, aj)

\* C2 witness: a parent that itself has bound attributes, two children bound
\* with different lists, and a line written by the elder child.
SiblingsWitness ==
    \E i, j \in HandlerIds :
        /\ i < j
        /\ handlers[i].op = "attrs" /\ handlers[j].op = "attrs"
        /\ handlers[i].parent = handlers[j].parent
        /\ handlers[i].arg # handlers[j].arg
        /\ handlers[handlers[i].parent].op = "attrs"
        /\ Handled /\ last.h = i

\* C3: no step changes the group or the context bytes of a handler that
\* exists, and the constructed handler has no bound attributes and no group.
ParentUntouched ==
    /\ [][\A i \in HandlerIds :
             /\ handlers'[i].group = handlers[i].group
             /\ handlers'[i].opts = handlers[i].opts
             /\ Bytes(arrays', handlers'[i].context)
                  = Bytes(arrays, handlers[i].context)]_vars
    /\ [](/\ handlers[1].group = <<>>
          /\ Bytes(arrays, handlers[1].context) = <<>>
          /\ (Handled /\ last.h = 1) =>
                last.line = header(handlers[1], Records[last.r])
                            \o last.indent \o Records[last.r].Message
                            \o writeAttrs(writtenAttrs(handlers[1], Records[last.r]),
                                          <<>>, 0)
                            \o NewLine)

\* C3 witness: a handler with bound attributes from which both a WithAttrs and
\* a WithGroup handler were derived, and a line written by the constructed
\* handler when derived handlers exist.
ParentWitness ==
    /\ \E p, i, j \in HandlerIds :
        /\ handlers[p].op = "attrs"
        /\ handlers[i].parent = p /\ handlers[i].op = "attrs"
        /\ handlers[j].parent = p /\ handlers[j].op = "group"
    /\ Handled /\ last.h = 1

\* The key the claim of C4 gives a record attribute k under handler i.
joinedKey(i, k) == joinDots(groupNamesOf(i)) \o <<".">> \o k

\* The key with the leading empty names left out.
joinedKeyAmended(i, k) ==
    LET ns == dropLeadingEmpty(groupNamesOf(i))
    IN  IF ns = <<>> THEN k ELSE joinDots(ns) \o <<".">> \o k

\* C4 as claimed: under a handler reached by WithGroup calls alone, the key of
\* a record attribute is the trimmed names joined by dots, a dot, the key.
DottedGroupPath ==
    (Handled /\ last.r = 3 /\ groupsOnly(last.h))
    => Contains(last.line, <<" ">> \o joinedKey(last.h, <<"k">>) \o <<"=", "1">>)

\* C4 amended: the same, the names that are empty while the path is still
\* empty left out (and the key alone when no name is left).
DottedGroupPathAmended ==
    (Handled /\ last.r = 3 /\ groupsOnly(last.h))
    => Contains(last.line,
                <<" ">> \o joinedKeyAmended(last.h, <<"k">>) \o <<"=", "1">>)

\* C4 witness: three nested groups, one of them with an empty name, and a
\* line written under them.
DottedGroupPathWitness ==
    /\ Handled /\ last.r = 3 /\ groupsOnly(last.h)
    /\ Len(chainOf(last.h)) = 3
    /\ \E k \in 1..3 : groupNamesOf(last.h)[k] = <<>>
    /\ \E k \in 1..3 : groupNamesOf(last.h)[k] # <<>>

\* C5: a line is the timestamp, the level, the source if any, the message,
\* the bound attributes in the order of binding, the record's attributes in
\* record order, and the line end.
EmissionOrder ==
    Handled =>
        LET hd == handlers[last.h]
            rec == Records[last.r]
        IN  last.line =
                writeTimestamp(rec.Time) \o writeLevel(rec.Level)
                \o (IF hd.opts.AddSource /\ rec.PC > 0 THEN writeSource(rec.PC)
                    ELSE <<>>)
                \o last.indent \o rec.Message
                \o boundText(last.h)
                \o writeAttrs(writtenAttrs(hd, rec), hd.group, 0)
                \o <<"\r", "\n">>

\* C5 witness: a line with a source, two lists of bound attributes and two
\* attributes of the record.
EmissionOrderWitness ==
    /\ Handled
    /\ handlers[last.h].opts.AddSource /\ Records[last.r].PC > 0
    /\ Len(writtenAttrs(handlers[last.h], Records[last.r])) >= 2
    /\ \E i \in HandlerIds :
        /\ handlers[last.h].op = "attrs" /\ handlers[last.h].parent = i
        /\ handlers[i].op = "attrs"
        /\ handlers[i].arg # handlers[last.h].arg

\* C7 as claimed: with indentation configured, the text before the message
\* is the prefix followed by the tab once for each level of a positive depth.
IndentPrefixTab ==
    (Handled /\ ~isZero(handlers[last.h].opts.Indent))
    => last.indent =
         handlers[last.h].opts.Indent.Prefix
         \o Repeat(handlers[last.h].opts.Indent.Tab,
                   IF last.depth > 0 THEN last.depth ELSE 0)

\* C8: Handle returns the sink's error when the write fails, after one write,
\* with the buffer back in the pool; it returns no error when the sink takes
\* the line; it returns no error that is not a failed write.
SinkFailure ==
    last.op = "Handle" =>
        /\ last.writes = 1
        /\ last.buf \in pool
        /\ last.out = "err" => last.err = "SinkErr"
        /\ last.out = "ok" => last.err = "nil"
        /\ last.err # "nil" => last.out # "ok"

\* C8 witness: a Handle call whose write the sink rejected.
SinkFailureWitness ==
    last.op = "Handle" /\ last.out = "err" /\ last.err = "SinkErr"

\* C1 as claimed: a Handle call with a record below the handler's level
\* writes nothing and takes no buffer.
LevelFilterHandle ==
    (last.op = "Handle" /\ Records[last.r].Level < handlers[last.h].opts.Level)
    => (last.writes = 0 /\ last.buf = 0)

\* C1 amended: the filter is Enabled; a logging call, which asks Enabled
\* before Handle, with a record below the handler's level writes nothing and
\* takes no buffer.
LevelFilterLog ==
    (last.via = "Log" /\ Records[last.r].Level < handlers[last.h].opts.Level)
    => (last.op = "Skip" /\ last.writes = 0 /\ last.buf = 0)

\* C1 witness: a logging call below the level of a derived handler, skipped.
LevelFilterWitness ==
    /\ last.via = "Log" /\ last.op = "Skip" /\ last.h = 2
    /\ Records[last.r].Level < handlers[last.h].opts.Level

\* C6 as claimed: the same record handled again by the same handler gives the
\* same line.
SameLineTwice ==
    (Handled /\ memo.set /\ memo.h = last.h /\ memo.r = last.r)
    => last.line = memo.line

\* C6 amended: it gives the same line when the DepthValuer the record points
\* to stands where it stood at the first call.
SameLineTwiceAmended ==
    (Handled /\ memo.set /\ memo.h = last.h /\ memo.r = last.r /\ memo.d = last.d)
    => last.line = memo.line

\* C6 witness: a record with the DepthValuer for its depth, handled again two
\* or more calls later by a derived handler, the DepthValuer moved from zero.
SameLineTwiceWitness ==
    /\ Handled /\ memo.set /\ memo.h = last.h /\ memo.r = last.r
    /\ memo.d = last.d /\ memo.n = 2
    /\ last.r = 4 /\ last.d = 1 /\ last.h = 2

\* C9: no buffer is held by two calls or held and in the pool, every context
\* holds what was bound and nothing else, and a call hands the sink the line
\* it renders alone.
CallsDoNotInterfere ==
    /\ \A c \in DOMAIN calls : calls[c].pc # "idle" =>
        /\ calls[c].buf \notin pool
        /\ \A x \in DOMAIN calls :
              (x # c /\ calls[x].pc # "idle") => calls[x].buf # calls[c].buf
    /\ \A i \in HandlerIds : Bytes(arrays, handlers[i].context) = boundText(i)
    /\ last.op = "Handle" =>
        /\ last.writes = 1
        /\ last.line = header(handlers[last.h], Records[last.r])
                       \o last.indent \o Records[last.r].Message
                       \o boundText(last.h)
                       \o writeAttrs(writtenAttrs(handlers[last.h], Records[last.r]),
                                     handlers[last.h].group, 0)
                       \o NewLine

\* C9 witness: a call on a derived handler wrote its line while a call on
\* its parent, with another record, had rendered and not yet written.
CallsWitness ==
    /\ Handled /\ last.conc /\ last.h = 2
    /\ \E c \in DOMAIN calls :
        /\ calls[c].pc = "rendered" /\ calls[c].h = 1
        /\ calls[c].r # last.r

\* C10: with indentation configured the depth is the integer of the record's
\* depth attribute, that attribute is not written and the others are written
\* in their order; without, every attribute is written and the message is
\* written as it is.
DepthExtraction ==
    Handled =>
        LET hd == handlers[last.h]
            rec == Records[last.r]
            key == hd.opts.Indent.Key
            at == {i \in 1..Len(rec.Attrs) : rec.Attrs[i].Key = key}
            others == SelectSeq(rec.Attrs, LAMBDA a : a.Key # key)
            ctx == Bytes(arrays, hd.context)
        IN  IF ~isZero(hd.opts.Indent)
            THEN /\ \A i \in at :
                      /\ rec.Attrs[i].Value.kind = "Int64"
                            => last.depth = rec.Attrs[i].Value.n
                      /\ rec.Attrs[i].Value.kind = "LogValuer"
                            => last.depth = last.d
                 /\ last.line = header(hd, rec)
                                \o indentString(hd.opts.Indent, last.depth)
                                \o rec.Message \o ctx
                                \o writeAttrs(others, hd.group, last.d) \o NewLine
            ELSE /\ last.indent = <<>>
                 /\ last.line = header(hd, rec) \o rec.Message \o ctx
                                \o writeAttrs(rec.Attrs, hd.group, last.d) \o NewLine

\* C10 witness: the depth taken from the DepthValuer at 2, the line indented
\* by it under a handler with a group.
DepthExtractionWitness ==
    /\ Handled /\ last.r = 4 /\ last.d = 2 /\ last.depth = 2
    /\ ~isZero(handlers[last.h].opts.Indent)
    /\ handlers[last.h].group # <<>>
    /\ last.indent # <<>>

\* The depth attribute of the record is there and is no integer: of another
\* kind, or a LogValuer that does not give an integer.
malformedDepth(rec, key, d) ==
    /\ \E i \in 1..Len(rec.Attrs) : rec.Attrs[i].Key = key
    /\ \A i \in 1..Len(rec.Attrs) :
          rec.Attrs[i].Key = key =>
            /\ rec.Attrs[i].Value.kind # "Int64"
            /\ rec.Attrs[i].Value.kind = "LogValuer" =>
                  (\/ Panics(rec.Attrs[i].Value)
                   \/ Resolve(rec.Attrs[i].Value, d).kind # "Int64")

\* C11 as claimed: with indentation configured and a depth attribute that is
\* no integer, Handle returns, having written the line with depth 0, and
\* with an error only when the sink failed.
MalformedDepthZero ==
    (/\ last.op \in {"Handle", "Panic"}
     /\ ~isZero(handlers[last.h].opts.Indent)
     /\ malformedDepth(Records[last.r], handlers[last.h].opts.Indent.Key, last.d))
    => /\ last.op = "Handle"
       /\ last.depth = 0
       /\ last.line = header(handlers[last.h], Records[last.r])
                      \o Records[last.r].Message
                      \o Bytes(arrays, handlers[last.h].context)
                      \o writeAttrs(writtenAttrs(handlers[last.h], Records[last.r]),
                                    handlers[last.h].group, 0)
                      \o NewLine
       /\ last.err # "nil" => last.out # "ok"

\* C11, the part that holds: the same for a depth attribute whose LogValue,
\* where it is a LogValuer, returns.
MalformedDepthReturns ==
    (/\ last.op \in {"Handle", "Panic"}
     /\ ~isZero(handlers[last.h].opts.Indent)
     /\ malformedDepth(Records[last.r], handlers[last.h].opts.Indent.Key, last.d)
     /\ ~scanPanics(Records[last.r].Attrs, handlers[last.h].opts.Indent.Key))
    => /\ last.op = "Handle"
       /\ last.depth = 0
       /\ last.err # "nil" => last.out # "ok"

\* C12 as claimed: a handler made by WithAttrs or WithGroup has the options
\* and the indentation (prefix, indent string, depth) its parent has when it
\* is made.
DerivedSharesConfiguration ==
    [][Len(handlers') > Len(handlers) =>
         LET new == handlers'[Len(handlers')]
         IN  /\ new.opts = handlers[new.parent].opts
             /\ new.indentation = handlers[new.parent].indentation]_vars

\* C14: the depth of a handler is never below zero; Increment adds one,
\* Decrement takes one away from a positive depth and leaves zero as it is,
\* SetIndentation makes it zero; the message of a line comes after the prefix
\* and the indent string once for each level of the depth.
HandlerDepthCounter ==
    /\ \A i \in HandlerIds : handlers[i].indentation.depth >= 0
    /\ last.op = "Increment" =>
          handlers[last.h].indentation.depth = last.depth + 1
    /\ last.op = "Decrement" =>
          handlers[last.h].indentation.depth
            = (IF last.depth = 0 THEN 0 ELSE last.depth - 1)
    /\ last.op = "SetIndentation" => handlers[last.h].indentation.depth = 0
    /\ (last.op = "Handle" /\ last.via = "Indenter") =>
          LET hd == handlers[last.h]
              rec == Records[last.r]
          IN  /\ last.depth = hd.indentation.depth
              /\ last.line =
                    header(hd, rec)
                    \o hd.indentation.prefix
                    \o Repeat(hd.indentation.indent, hd.indentation.depth)
                    \o rec.Message
                    \o Bytes(arrays, hd.context)
                    \o writeAttrs(rec.Attrs, hd.group, 0) \o NewLine

\* C14 witness: a line written at depth 2, after the prefix and the indent
\* string twice.
HandlerDepthWitness ==
    /\ last.op = "Handle" /\ last.via = "Indenter" /\ last.writes = 1
    /\ last.depth = 2
    /\ handlers[last.h].indentation.prefix # <<>>
    /\ handlers[last.h].indentation.indent # <<>>
    /\ last.indent = handlers[last.h].indentation.prefix
                      \o handlers[last.h].indentation.indent
                      \o handlers[last.h].indentation.indent

\* C13 as claimed: the Indentation of a handler made with
\* DefaultIndentation(tab) has tab for its Tab, no Prefix and the default key.
DefaultIndentationTab ==
    \A i \in HandlerIds :
        handlers[i].op = "new" =>
            /\ handlers[i].opts.Indent.Tab = handlers[i].arg
            /\ handlers[i].opts.Indent.Prefix = <<>>
            /\ handlers[i].opts.Indent.Key = defaultIndentKey

\* The group path open at handler i, from the names of the WithGroup calls
\* that led to it.
RECURSIVE pathAt(_)
pathAt(i) ==
    IF handlers[i].parent = 0 THEN <<>>
    ELSE IF handlers[i].op = "group"
    THEN LET p == pathAt(handlers[i].parent)
             n == TrimSpace(GroupNames[handlers[i].arg])
         IN  IF p = <<>> THEN n ELSE p \o <<".">> \o n
    ELSE pathAt(handlers[i].parent)

\* The attributes bound on the way to handler i, each written under the path
\* that was open when it was bound.
RECURSIVE boundAt(_)
boundAt(i) ==
    IF handlers[i].parent = 0 THEN <<>>
    ELSE boundAt(handlers[i].parent)
         \o (IF handlers[i].op = "attrs"
             THEN writeAttrs(AttrLists[handlers[i].arg], pathAt(handlers[i].parent), 0)
             ELSE <<>>)

\* C15: WithGroup adds nothing to the context; the context of a handler is
\* the attributes bound on the way to it, each under the path open when it
\* was bound; a line carries them so, and the record's attributes under the
\* path open at the handler.
BoundKeysKept ==
    /\ \A i \in HandlerIds :
          /\ handlers[i].op = "group" =>
                Bytes(arrays, handlers[i].context)
                  = Bytes(arrays, handlers[handlers[i].parent].context)
          /\ Bytes(arrays, handlers[i].context) = boundAt(i)
    /\ Handled =>
          last.line = header(handlers[last.h], Records[last.r])
                      \o last.indent \o Records[last.r].Message
                      \o boundAt(last.h)
                      \o writeAttrs(writtenAttrs(handlers[last.h], Records[last.r]),
                                    pathAt(last.h), 0)
                      \o NewLine

\* C15 witness: WithGroup, WithAttrs, WithGroup in turn, and a line written
\* by the last handler with the bound attribute under the first group and
\* the record's attribute under both.
BoundKeysWitness ==
    /\ Handled /\ last.r = 3
    /\ Len(chainOf(last.h)) = 3
    /\ handlers[chainOf(last.h)[1]].op = "group"
    /\ handlers[chainOf(last.h)[2]].op = "attrs"
    /\ handlers[chainOf(last.h)[3]].op = "group"
    /\ Contains(last.line, <<" ", "g", ".", "a", "=", "1", " ", "g", ".", "g", ".", "k", "=", "1">>)

\* How many line ends a text holds.
lineEnds(t) == Cardinality({i \in 1..Len(t) : t[i] = "\n"})

====
